---- MODULE Spec2Model ----
(***************************************************************************)
(* Controlled attack traffic generator (controlled_attack_generator.py):   *)
(* one ControlledAttackGenerator object, the four attack methods called on *)
(* it in any order, and the ground truth it keeps in stats['attacks'].     *)
(*                                                                         *)
(* One action is one step of a method: the call up to the socket set-up,   *)
(* the socket set-up, one loop iteration (build, send, count, pace), the   *)
(* code after the loop (close, record, return).  The outcome of every      *)
(* system call (socket, setsockopt, sendto, connect, sendall) is chosen by *)
(* the environment.                                                        *)
(***************************************************************************)
EXTENDS Integers, FiniteSets, Sequences, TLC

\* ------------------------------------------------------------- bounds
\* Largest count / port-range length a call is given.
MaxCount == 2
\* Number of attack-method calls made on the generator.
MaxCalls == 2

\* ------------------------------------------------------ program constants
\* Largest value struct.pack accepts for an 'H' (unsigned 16-bit) field.
USHRT_MAX == 65535

\* ------------------------------------------------------------- inputs
\* Packet and request counts.
Counts == 0 .. MaxCount
\* A negative, a zero and a positive rate (packets per second).
Rates == {-1, 0, 1000}
\* syn_flood's port: the default and one that does not fit 16 bits.
SynPorts == {80, 65536}
\* port_scan's range ends: the last two ports of the 16-bit range and the
\* first value past it.
ScanPorts == {65534, 65535, 65536}

VARIABLES
    attacks,      \* self.stats['attacks']: a dict, attack name -> record
    delivered,    \* number of send calls that succeeded since construction
    calls,        \* number of attack-method calls made so far
    pc,           \* Idle | Setup | Sending | Completed | Aborted | Raised
    kind,         \* the method running or last run
    port, count, rate, start_port, end_port,   \* its arguments
    i,            \* iterations of the send loop done so far
    sent,         \* packets_sent / requests_sent
    failed,       \* packets_failed / requests_failed
    delay,        \* the inter-packet delay, a fraction <<num, den>> of a second
    log,          \* the send attempts of this run, in order: what each was
                  \* addressed to, whether the send call returned, and
                  \* whether a pacing sleep followed it
    looping,      \* whether this run has entered its send loop
    before,       \* stats['attacks'] as it was when this call was made
    held,         \* 1 when the local s references an open socket, else 0
    leaked,       \* sockets this run opened that are still open and that
                  \* nothing references any more
    ret,          \* what the call returned: pending | record | None | exception
    err,          \* the exception that ended the run, or none
    data,         \* the byte buffer or header fields a helper is applied to
    native,       \* the byte order of the host: little | big
    result,       \* whether the helper has returned, and the value it returned
    attack,       \* the --attack selector of the process, none without __main__
    step,         \* where __main__ is: idle | dispatch | single | the suite's
                  \* running attack | exited
    totals,       \* self.stats['totals']
    file,         \* the statistics file: whether written, and what it holds
    status,       \* the exit status of the process once step = "exited"
    denied,       \* whether a run of this process has ended on PermissionError
    runs,         \* the method calls __main__ or the suite has made, in order:
                  \* the method, and how the call was seen to end
    files,        \* what the evaluator is given: the ground-truth file, the
                  \* lines of eve.json, and the report file once saved
    collector,    \* the DetectionMetricsCollector object's attributes
    analysis      \* where the evaluator's main is, and what it returned

vars == <<attacks, delivered, calls, pc, kind, port, count, rate, start_port,
          end_port, i, sent, failed, delay, log, looping, before, held,
          leaked, ret, err, data, native, result, attack, step, totals, file,
          status, denied, runs, files, collector, analysis>>

\* The state of __main__ and run_standard_suite.
entry == <<attack, step, totals, file, status, denied, runs>>

\* The state of collect_detection_metrics.py.
evaluator == <<files, collector, analysis>>

\* What the steps of an attack method leave alone.
other == <<data, native, result, entry, evaluator>>

params == <<kind, port, count, rate, start_port, end_port>>

Terminal == {"Completed", "Aborted", "Raised"}
RawKinds == {"syn_flood", "port_scan", "icmp_flood"}

\* ------------------------------------------------------------ helpers
\* len(range(a, b))
RangeLen(a, b) == IF b > a THEN b - a ELSE 0

\* delay = 1.0 / rate if rate > 0 else 0
Delay(r) == IF r > 0 THEN <<1, r>> ELSE <<0, 1>>

\* struct.pack('!H', v) raises struct.error unless 0 <= v <= 65535
Packable(v) == v >= 0 /\ v <= USHRT_MAX

\* port_count = end_port - start_port + 1
PortCount(sp, ep) == ep - sp + 1

\* d[k] = r on a dict
Put(d, k, r) == [x \in DOMAIN d \cup {k} |-> IF x = k THEN r ELSE d[x]]

\* Mutant: only packets_sent is read of a record.
SentOfPacketsOnly(r) ==
    IF "packets_sent" \in DOMAIN r THEN r.packets_sent ELSE 0

\* attack.get('packets_sent', attack.get('requests_sent', 0))
SentOf(r) ==
    IF "packets_sent" \in DOMAIN r THEN r.packets_sent
    ELSE IF "requests_sent" \in DOMAIN r THEN r.requests_sent
    ELSE 0

\* sum(... for attack in self.stats['attacks'].values())
RECURSIVE SumSent(_, _)
SumSent(d, names) ==
    IF names = {} THEN 0
    ELSE LET n == CHOOSE x \in names : TRUE
         IN  SentOf(d[n]) + SumSent(d, names \ {n})

TotalPackets(d) == SumSent(d, DOMAIN d)

\* Mutant: the scan's range leaves out end_port.
IterationsExclusive ==
    IF kind = "port_scan" THEN RangeLen(start_port, end_port)
    ELSE RangeLen(0, count)

\* Number of iterations the loop of the running method makes.
Iterations ==
    IF kind = "port_scan" THEN RangeLen(start_port, end_port + 1)
    ELSE RangeLen(0, count)

\* Mutant: every probe of the scan goes to start_port.
DestinationStartOnly ==
    CASE kind = "port_scan"  -> start_port
      [] kind = "icmp_flood" -> i
      [] OTHER               -> port

\* What the packet or request of iteration i is addressed to: the
\* destination port, or for an echo request its sequence number.
Destination ==
    CASE kind = "port_scan"  -> start_port + i
      [] kind = "icmp_flood" -> i
      [] OTHER               -> port

\* Whether the packet of iteration i can be built: every field must fit
\* the struct format it is packed with.
Buildable ==
    CASE kind = "http_flood" -> TRUE
      [] OTHER               -> Packable(Destination)

\* elapsed = time.time() - start_time.  The clock is taken to tick once per
\* loop iteration, so a run that made no iteration measures 0.
Elapsed == i

\* packets_sent / elapsed if elapsed > 0 else 0, as a fraction <<num, den>>
RateOver(n, elapsed) == IF elapsed > 0 THEN <<n, elapsed>> ELSE <<0, 1>>

\* Mutant: http_flood stores its measured rate under actual_rate.
RecordHttpActualRate ==
    CASE kind = "syn_flood" ->
           [port |-> port, requested_count |-> count, packets_sent |-> sent,
            packets_failed |-> failed, duration |-> Elapsed,
            target_rate |-> rate, actual_rate |-> RateOver(sent, Elapsed),
            attack_type |-> "SYN Flood"]
      [] kind = "port_scan" ->
           [start_port |-> start_port, end_port |-> end_port,
            port_count |-> PortCount(start_port, end_port),
            packets_sent |-> sent, packets_failed |-> failed,
            duration |-> Elapsed, target_rate |-> rate,
            actual_rate |-> RateOver(sent, Elapsed),
            attack_type |-> "Port Scan"]
      [] kind = "icmp_flood" ->
           [requested_count |-> count, packets_sent |-> sent,
            packets_failed |-> failed, duration |-> Elapsed,
            target_rate |-> rate, actual_rate |-> RateOver(sent, Elapsed),
            attack_type |-> "ICMP Flood"]
      [] OTHER ->
           [port |-> port, requested_count |-> count, requests_sent |-> sent,
            requests_failed |-> failed, duration |-> Elapsed,
            actual_rate |-> RateOver(sent, Elapsed),
            attack_type |-> "HTTP Flood"]

\* The record the finished run stores.
Record ==
    CASE kind = "syn_flood" ->
           [port |-> port, requested_count |-> count, packets_sent |-> sent,
            packets_failed |-> failed, duration |-> Elapsed,
            target_rate |-> rate, actual_rate |-> RateOver(sent, Elapsed),
            attack_type |-> "SYN Flood"]
      [] kind = "port_scan" ->
           [start_port |-> start_port, end_port |-> end_port,
            port_count |-> PortCount(start_port, end_port),
            packets_sent |-> sent, packets_failed |-> failed,
            duration |-> Elapsed, target_rate |-> rate,
            actual_rate |-> RateOver(sent, Elapsed),
            attack_type |-> "Port Scan"]
      [] kind = "icmp_flood" ->
           [requested_count |-> count, packets_sent |-> sent,
            packets_failed |-> failed, duration |-> Elapsed,
            target_rate |-> rate, actual_rate |-> RateOver(sent, Elapsed),
            attack_type |-> "ICMP Flood"]
      [] OTHER ->
           [port |-> port, requested_count |-> count, requests_sent |-> sent,
            requests_failed |-> failed, duration |-> Elapsed,
            rate |-> RateOver(sent, Elapsed), attack_type |-> "HTTP Flood"]

\* ---------------------------------------------------------------- Init
\* The generator after __init__: empty ground truth, no method called yet.
Constructed ==
    /\ attacks = [x \in {} |-> 0]
    /\ delivered = 0
    /\ calls = 0
    /\ pc = "Idle"
    /\ kind = "none"
    /\ port = 0 /\ count = 0 /\ rate = 0 /\ start_port = 0 /\ end_port = 0
    /\ i = 0 /\ sent = 0 /\ failed = 0
    /\ delay = <<0, 1>>
    /\ log = << >>
    /\ looping = FALSE
    /\ before = [x \in {} |-> 0]
    /\ held = 0 /\ leaked = 0
    /\ ret = "pending"
    /\ err = "none"

\* No helper is being applied on its own.
HelperIdle ==
    /\ data = [fn |-> "none"]
    /\ native \in {"little", "big"}
    /\ result = [returned |-> FALSE]

\* The methods are called on the object directly, not through __main__.
EntryIdle ==
    /\ attack = "none"
    /\ step = "idle"
    /\ totals = [x \in {} |-> 0]
    /\ file = [written |-> FALSE]
    /\ status = 0
    /\ denied = FALSE
    /\ runs = << >>

\* collect_detection_metrics.py is not run.
EvaluatorIdle ==
    /\ files = [given |-> FALSE]
    /\ collector = [constructed |-> FALSE]
    /\ analysis = [at |-> "idle"]

\* The attack methods are followed on a little-endian host; what they
\* count does not depend on the byte order.
Init ==
    /\ Constructed
    /\ HelperIdle
    /\ native = "little"
    /\ EntryIdle
    /\ EvaluatorIdle

\* -------------------------------------------------------------- calls
\* A method is entered: its arguments are bound, its counters start at 0.
\* The header it prints divides by the rate (zero: ZeroDivisionError, raised
\* outside every try block).
Bind(k, p, c, r, sp, ep, divisor) ==
    /\ calls' = calls + 1
    /\ kind' = k /\ port' = p /\ count' = c /\ rate' = r
    /\ start_port' = sp /\ end_port' = ep
    /\ i' = 0 /\ sent' = 0 /\ failed' = 0 /\ log' = << >>
    /\ delay' = <<0, 1>>
    /\ before' = attacks
    /\ IF divisor = 0
         THEN /\ pc' = "Raised" /\ ret' = "exception"
              /\ err' = "ZeroDivisionError" /\ looping' = FALSE
         ELSE /\ pc' = IF k = "http_flood" THEN "Sending" ELSE "Setup"
              /\ looping' = (k = "http_flood")
              /\ ret' = "pending" /\ err' = "none"
    /\ leaked' = 0
    /\ UNCHANGED <<attacks, delivered, held>>

\* A method is called on the generator, the previous call having ended.
Enter(k, p, c, r, sp, ep, divisor) ==
    /\ pc \in {"Idle"} \cup Terminal
    /\ calls < MaxCalls
    /\ Bind(k, p, c, r, sp, ep, divisor)
    /\ UNCHANGED other

syn_flood ==
    \E p \in SynPorts, c \in Counts, r \in Rates :
        Enter("syn_flood", p, c, r, 0, 0, r)

port_scan ==
    \E sp \in ScanPorts, ep \in ScanPorts, r \in Rates :
        /\ RangeLen(sp, ep + 1) <= MaxCount
        /\ Enter("port_scan", 0, 0, r, sp, ep, r)

icmp_flood ==
    \E c \in Counts, r \in Rates :
        Enter("icmp_flood", 0, c, r, 0, 0, r)

\* http_flood takes no rate and divides by nothing before its loop.
http_flood ==
    \E c \in Counts :
        Enter("http_flood", 8080, c, 0, 0, 0, 1)

\* ---------------------------------------------- raw socket set-up
\* The run ends in an except clause of the outer try: return None.  The
\* socket, if one was created, is not closed: its last reference goes with
\* the frame.
Abort(e) ==
    /\ pc' = "Aborted"
    /\ ret' = "None"
    /\ err' = e
    /\ leaked' = leaked + held
    /\ held' = 0
    /\ UNCHANGED <<attacks, delivered, calls, params, i, sent, failed, delay,
                   log, looping, before>>
    /\ UNCHANGED other

\* Mutant: the except clause does not return, and the code after the try
\* stores the (empty) record.
RawSocketPermissionErrorRecorded ==
    /\ pc = "Setup"
    /\ attacks' = Put(attacks, kind, Record)
    /\ pc' = "Aborted"
    /\ ret' = "None"
    /\ err' = "PermissionError"
    /\ UNCHANGED <<delivered, calls, params, i, sent, failed, delay, log,
                   looping, before, held, leaked>>
    /\ UNCHANGED other

\* socket.socket(AF_INET, SOCK_RAW, ...) raises PermissionError.
RawSocketPermissionError ==
    /\ pc = "Setup"
    /\ Abort("PermissionError")

\* socket.socket raises another OSError.
RawSocketError ==
    /\ pc = "Setup"
    /\ Abort("OSError")

\* The socket is created; syn_flood and port_scan then set IP_HDRINCL, and
\* setsockopt raises.
SetsockoptError ==
    /\ pc = "Setup"
    /\ kind \in {"syn_flood", "port_scan"}
    /\ pc' = "Aborted"
    /\ ret' = "None"
    /\ err' = "OSError"
    /\ leaked' = leaked + 1
    /\ held' = 0
    /\ UNCHANGED <<attacks, delivered, calls, params, i, sent, failed, delay,
                   log, looping, before>>
    /\ UNCHANGED other

\* The socket is created and set up, the delay is computed.
RawSocketOk ==
    /\ pc = "Setup"
    /\ held' = 1
    /\ delay' = Delay(rate)
    /\ pc' = "Sending"
    /\ looping' = TRUE
    /\ UNCHANGED <<attacks, delivered, calls, params, i, sent, failed, log,
                   before, leaked, ret, err>>
    /\ UNCHANGED other

\* ------------------------------------------------- the raw send loop
\* Mutant: the pacing sleep follows a successful send only.
IterateSleepAfterSuccess(ok) ==
    /\ pc = "Sending"
    /\ kind \in RawKinds
    /\ i < Iterations
    /\ Buildable
    /\ log' = Append(log, [dst |-> Destination, ok |-> ok,
                        slept |-> ok /\ delay[1] > 0])
    /\ IF ok
         THEN sent' = sent + 1 /\ delivered' = delivered + 1 /\ failed' = failed
         ELSE failed' = failed + 1 /\ sent' = sent /\ delivered' = delivered
    /\ i' = i + 1
    /\ UNCHANGED <<attacks, calls, params, pc, delay, looping, before, held,
                   leaked, ret, err>>
    /\ UNCHANGED other

\* One iteration of syn_flood, port_scan or icmp_flood whose packet is
\* built: one sendto, counted as sent or as failed, then the pacing sleep
\* (time.sleep(delay) if delay > 0).
Iterate(ok) ==
    /\ pc = "Sending"
    /\ kind \in RawKinds
    /\ i < Iterations
    /\ Buildable
    /\ log' = Append(log, [dst |-> Destination, ok |-> ok,
                        slept |-> delay[1] > 0])
    /\ IF ok
         THEN sent' = sent + 1 /\ delivered' = delivered + 1 /\ failed' = failed
         ELSE failed' = failed + 1 /\ sent' = sent /\ delivered' = delivered
    /\ i' = i + 1
    /\ UNCHANGED <<attacks, calls, params, pc, delay, looping, before, held,
                   leaked, ret, err>>
    /\ UNCHANGED other

\* s.sendto returns.
RawSendOk == Iterate(TRUE)

\* Mutant: a failed sendto is swallowed without being counted.
RawSendFailUncounted ==
    /\ pc = "Sending"
    /\ kind \in RawKinds
    /\ i < Iterations
    /\ Buildable
    /\ log' = Append(log, [dst |-> Destination, ok |-> FALSE,
                        slept |-> delay[1] > 0])
    /\ i' = i + 1
    /\ UNCHANGED <<attacks, delivered, calls, params, pc, sent, failed, delay,
                   looping, before, held, leaked, ret, err>>
    /\ UNCHANGED other

\* Mutant: a failed sendto is counted and the same packet is tried again.
RawSendFailRetried ==
    /\ pc = "Sending"
    /\ kind \in RawKinds
    /\ i < Iterations
    /\ Buildable
    /\ log' = Append(log, [dst |-> Destination, ok |-> FALSE,
                        slept |-> delay[1] > 0])
    /\ failed' = failed + 1
    /\ failed < MaxCount + 1
    /\ UNCHANGED <<attacks, delivered, calls, params, pc, i, sent, delay,
                   looping, before, held, leaked, ret, err>>
    /\ UNCHANGED other

\* s.sendto raises: the bare except counts the packet as failed.
RawSendFail == Iterate(FALSE)

\* A field of the packet does not fit its struct format: struct.error is
\* raised inside the loop, outside the inner try, and the outer
\* `except Exception` ends the run.
RawBuildError ==
    /\ pc = "Sending"
    /\ kind \in RawKinds
    /\ i < Iterations
    /\ ~Buildable
    /\ Abort("struct.error")

\* The loop is over: s.close(), the record is stored and returned.
RawFinish ==
    /\ pc = "Sending"
    /\ kind \in RawKinds
    /\ i = Iterations
    /\ held' = 0
    /\ attacks' = Put(attacks, kind, Record)
    /\ pc' = "Completed"
    /\ ret' = "record"
    /\ UNCHANGED <<delivered, calls, params, i, sent, failed, delay, log,
                   looping, before, leaked, err>>
    /\ UNCHANGED other

\* ------------------------------------------------------- http_flood
\* One iteration: a fresh stream socket replaces the one s referenced,
\* connect and sendall succeed, the request is counted and s is closed.
HttpRequestOk ==
    /\ pc = "Sending"
    /\ kind = "http_flood"
    /\ i < Iterations
    /\ leaked' = leaked + held
    /\ held' = 0
    /\ sent' = sent + 1
    /\ delivered' = delivered + 1
    /\ log' = Append(log, [dst |-> Destination, ok |-> TRUE, slept |-> FALSE])
    /\ i' = i + 1
    /\ UNCHANGED <<attacks, calls, params, pc, failed, delay, looping, before,
                   ret, err>>
    /\ UNCHANGED other

\* socket.socket raises: s keeps what it referenced, the request is counted
\* as failed.
HttpSocketError ==
    /\ pc = "Sending"
    /\ kind = "http_flood"
    /\ i < Iterations
    /\ failed' = failed + 1
    /\ log' = Append(log, [dst |-> Destination, ok |-> FALSE, slept |-> FALSE])
    /\ i' = i + 1
    /\ UNCHANGED <<attacks, delivered, calls, params, pc, sent, delay, looping,
                   before, held, leaked, ret, err>>
    /\ UNCHANGED other

\* Mutant: a failed request is not counted.
HttpRequestErrorUncounted ==
    /\ pc = "Sending"
    /\ kind = "http_flood"
    /\ i < Iterations
    /\ leaked' = leaked + held
    /\ held' = 1
    /\ log' = Append(log, [dst |-> Destination, ok |-> FALSE, slept |-> FALSE])
    /\ i' = i + 1
    /\ UNCHANGED <<attacks, delivered, calls, params, pc, sent, failed, delay,
                   looping, before, ret, err>>
    /\ UNCHANGED other

\* connect or sendall raises (timeout, refusal, reset): the bare except
\* counts the request as failed; s.close() is skipped, s still references
\* the open socket.
HttpRequestError ==
    /\ pc = "Sending"
    /\ kind = "http_flood"
    /\ i < Iterations
    /\ leaked' = leaked + held
    /\ held' = 1
    /\ failed' = failed + 1
    /\ log' = Append(log, [dst |-> Destination, ok |-> FALSE, slept |-> FALSE])
    /\ i' = i + 1
    /\ UNCHANGED <<attacks, delivered, calls, params, pc, sent, delay, looping,
                   before, ret, err>>
    /\ UNCHANGED other

\* The loop is over: the record is stored and returned; the frame's s goes.
HttpFinish ==
    /\ pc = "Sending"
    /\ kind = "http_flood"
    /\ i = Iterations
    /\ attacks' = Put(attacks, kind, Record)
    /\ pc' = "Completed"
    /\ ret' = "record"
    /\ leaked' = leaked + held
    /\ held' = 0
    /\ UNCHANGED <<delivered, calls, params, i, sent, failed, delay, log,
                   looping, before, err>>
    /\ UNCHANGED other

\* ---------------------------------------------------------- runtime
\* The interpreter may finalize a socket object nothing references any
\* more, which closes it; when it does so, if ever, is up to the runtime.
SocketFinalizer ==
    /\ leaked > 0
    /\ leaked' = leaked - 1
    /\ UNCHANGED <<attacks, delivered, calls, params, pc, i, sent, failed,
                   delay, log, looping, before, held, ret, err>>
    /\ UNCHANGED other

\* ---------------------------------------------------------------- Next
Next ==
    \/ syn_flood
    \/ port_scan
    \/ icmp_flood
    \/ http_flood
    \/ RawSocketPermissionError
    \/ RawSocketError
    \/ SetsockoptError
    \/ RawSocketOk
    \/ RawSendOk
    \/ RawSendFail
    \/ RawBuildError
    \/ RawFinish
    \/ HttpRequestOk
    \/ HttpSocketError
    \/ HttpRequestError
    \/ HttpFinish
    \/ SocketFinalizer

Spec == Init /\ [][Next]_vars

\* ================================================== packet helpers
\* _checksum, _build_ip_header and _build_tcp_header applied on their own
\* to inputs drawn from small sets.  A buffer is a sequence of octets.

\* Longest buffer _checksum is applied to.
MaxLen == 3

\* Octet values: the smallest, the largest, and one on each side of the
\* top bit.
Octets == {0, 1, 128, 255}

Buffers == UNION {[1 .. n -> Octets] : n \in 0 .. MaxLen}

\* Dotted-quad addresses as inet_aton returns them.
Addresses == {<<10, 0, 0, 1>>, <<192, 168, 1, 255>>}

\* random.randint(0, 65535)
Ids == {0, 1, 4660, 65535}

\* random.randint(0, 0xffffffff), a 32-bit value written as its two 16-bit
\* halves <<high, low>>
Seqs == {<<0, 0>>, <<4660, 22136>>, <<65535, 65535>>}

\* the loop of _checksum from offset j (1-based) on: a full pair is added as
\* (data[i] << 8) + data[i + 1], a last single byte as data[i]
RECURSIVE WordSum(_, _)
WordSum(d, j) ==
    IF j > Len(d) THEN 0
    ELSE IF j + 1 <= Len(d)
           THEN (d[j] * 256 + d[j + 1]) + WordSum(d, j + 2)
           ELSE d[j] + WordSum(d, j + 2)

\* s = (s >> 16) + (s & 0xffff); s += s >> 16; return ~s & 0xffff
_checksum(d) ==
    LET s0 == WordSum(d, 1)
        s1 == (s0 \div 65536) + (s0 % 65536)
        s2 == s1 + (s1 \div 65536)
    IN  65535 - (s2 % 65536)

\* struct.pack('!H', v): network byte order
PackH(v) == <<v \div 256, v % 256>>

\* struct.pack('H', v): the byte order of the host
PackNativeH(v) == IF native = "little" THEN <<v % 256, v \div 256>> ELSE PackH(v)

\* struct.pack('!L', v), v given as its halves
PackL(v) == PackH(v[1]) \o PackH(v[2])

\* struct.pack('!BBHHHBB', version_ihl, tos, total_len, id, frag_off, ttl,
\* protocol)
IpFields(in) ==
    <<69, 0>> \o PackH(20 + in.payload_len) \o PackH(in.id) \o PackH(0)
        \o <<64, in.protocol>>

_build_ip_header(in) ==
    LET zeroed   == IpFields(in) \o PackH(0) \o in.source_ip \o in.target_ip
        checksum == _checksum(zeroed)
    IN  IpFields(in) \o PackNativeH(checksum) \o in.source_ip \o in.target_ip

\* struct.pack('!HHLLBBH', source_port, dest_port, seq, ack_seq, offset,
\* flags, window)
TcpFields(in) ==
    PackH(in.source_port) \o PackH(in.dest_port) \o PackL(in.seq) \o PackL(<<0, 0>>)
        \o <<80, 2>> \o PackH(5840)

\* struct.pack('!4s4sBBH', source_addr, dest_addr, placeholder, protocol,
\* tcp_length)
PseudoHeader(in, tcp_length) ==
    in.source_ip \o in.target_ip \o <<0, 6>> \o PackH(tcp_length)

_build_tcp_header(in) ==
    LET zeroed   == TcpFields(in) \o PackH(0) \o PackH(0)
        checksum == _checksum(PseudoHeader(in, Len(zeroed)) \o zeroed)
    IN  TcpFields(in) \o PackNativeH(checksum) \o PackH(0)

ChecksumInputs == [fn : {"_checksum"}, buf : Buffers]

IpInputs ==
    [fn : {"_build_ip_header"}, payload_len : {20}, protocol : {6},
     id : Ids, source_ip : Addresses, target_ip : Addresses]

TcpInputs ==
    [fn : {"_build_tcp_header"}, source_port : {10000, 65535},
     dest_port : {80, 8080}, seq : Seqs, source_ip : Addresses,
     target_ip : Addresses]

HelperInit ==
    /\ Constructed
    /\ data \in ChecksumInputs \cup IpInputs \cup TcpInputs
    /\ native \in {"little", "big"}
    /\ result = [returned |-> FALSE]
    /\ EntryIdle
    /\ EvaluatorIdle

\* The helper called on the input returns.
Return(value) ==
    /\ ~result.returned
    /\ result' = [returned |-> TRUE, value |-> value]
    /\ UNCHANGED <<attacks, delivered, calls, pc, kind, port, count, rate,
                   start_port, end_port, i, sent, failed, delay, log, looping,
                   before, held, leaked, ret, err, data, native, entry,
                   evaluator>>

CallChecksum ==
    /\ data.fn = "_checksum"
    /\ Return(_checksum(data.buf))

CallBuildIpHeader ==
    /\ data.fn = "_build_ip_header"
    /\ Return(_build_ip_header(data))

CallBuildTcpHeader ==
    /\ data.fn = "_build_tcp_header"
    /\ Return(_build_tcp_header(data))

HelperNext ==
    \/ CallChecksum
    \/ CallBuildIpHeader
    \/ CallBuildTcpHeader

HelperSpec == HelperInit /\ [][HelperNext]_vars

\* ======================================= __main__ and run_standard_suite
\* One process: the command line is parsed, the selected attack method or
\* the standard suite runs (the steps of the methods are the actions above)
\* and the process exits.

Selectors == {"syn", "scan", "http", "icmp", "all"}

\* The suite's counts (500 requests, 10,000 echo requests, ports 1-1000,
\* 100,000 SYN packets), scaled down to the bound on counts.
SuiteCount == MaxCount

\* The method called on the generator has returned a record.
ReturnedRecord == pc = "Completed"

\* The method called on the generator has returned (a record or None).
Returned == pc \in {"Completed", "Aborted"}

MainInit ==
    /\ Constructed
    /\ HelperIdle
    /\ native = "little"
    /\ attack \in Selectors
    /\ step = "dispatch"
    /\ totals = [x \in {} |-> 0]
    /\ file = [written |-> FALSE]
    /\ status = 0
    /\ denied = FALSE
    /\ runs = << >>
    /\ EvaluatorIdle

\* How the last call made is seen to have ended, now that control is back.
Ended(how) ==
    IF runs = << >> THEN runs
    ELSE [runs EXCEPT ![Len(runs)].ended = how]

\* __main__ or the suite calls a method and is then at `next`.
Start(k, p, c, r, sp, ep, divisor, next) ==
    /\ Bind(k, p, c, r, sp, ep, divisor)
    /\ step' = next
    /\ denied' = (denied \/ err = "PermissionError")
    /\ runs' = Append(Ended(pc), [method |-> k, ended |-> "pending"])
    /\ UNCHANGED <<data, native, result, attack, totals, file, status,
                   evaluator>>

\* --attack syn: generator.syn_flood(count=args.syn_count, rate=args.syn_rate)
MainSyn ==
    /\ step = "dispatch" /\ attack = "syn"
    /\ \E c \in Counts, r \in Rates :
           Start("syn_flood", 80, c, r, 0, 0, r, "single")

\* --attack scan: generator.port_scan(start_port, end_port, rate)
MainScan ==
    /\ step = "dispatch" /\ attack = "scan"
    /\ \E sp \in ScanPorts, ep \in ScanPorts, r \in Rates :
           /\ RangeLen(sp, ep + 1) <= MaxCount
           /\ Start("port_scan", 0, 0, r, sp, ep, r, "single")

\* --attack http: generator.http_flood(count=args.http_count)
MainHttp ==
    /\ step = "dispatch" /\ attack = "http"
    /\ \E c \in Counts : Start("http_flood", 8080, c, 0, 0, 0, 1, "single")

\* --attack icmp: generator.icmp_flood(count=args.icmp_count, rate=args.icmp_rate)
MainIcmp ==
    /\ step = "dispatch" /\ attack = "icmp"
    /\ \E c \in Counts, r \in Rates :
           Start("icmp_flood", 0, c, r, 0, 0, r, "single")

\* --attack all: run_standard_suite, whose first call is
\* self.http_flood(port=8080, count=500)
SuiteHttp ==
    /\ step = "dispatch" /\ attack = "all"
    /\ Start("http_flood", 8080, SuiteCount, 0, 0, 0, 1, "http_flood")

\* self.icmp_flood(count=10000, rate=1000)
SuiteIcmp ==
    /\ step = "http_flood" /\ Returned
    /\ Start("icmp_flood", 0, SuiteCount, 1000, 0, 0, 1000, "icmp_flood")

\* self.port_scan(start_port=1, end_port=1000, rate=1000)
SuiteScan ==
    /\ step = "icmp_flood" /\ Returned
    /\ Start("port_scan", 0, 0, 1000, 1, SuiteCount, 1000, "port_scan")

\* self.syn_flood(port=8080, count=100000, rate=10000)
SuiteSyn ==
    /\ step = "port_scan" /\ Returned
    /\ Start("syn_flood", 8080, SuiteCount, 10000, 0, 0, 10000, "syn_flood")

\* The last attack has returned: the totals are computed, self.stats is
\* written to the statistics file, the suite returns and the process ends.
\* (The clock readings end_time and total_duration are left out.)
SuiteFinish ==
    /\ step = "syn_flood" /\ Returned
    /\ totals' = [total_packets_sent |-> TotalPackets(attacks)]
    /\ file' = [written |-> TRUE, attacks |-> attacks, totals |-> totals']
    /\ step' = "exited"
    /\ status' = 0
    /\ denied' = (denied \/ err = "PermissionError")
    /\ runs' = Ended(pc)
    /\ UNCHANGED <<attacks, delivered, calls, pc, params, i, sent, failed,
                   delay, log, looping, before, held, leaked, ret, err, data,
                   native, result, attack, evaluator>>

\* The method __main__ called has returned: the script ends.
MainReturn ==
    /\ step = "single" /\ Returned
    /\ step' = "exited"
    /\ status' = 0
    /\ denied' = (denied \/ err = "PermissionError")
    /\ runs' = Ended(pc)
    /\ UNCHANGED <<attacks, delivered, calls, pc, params, i, sent, failed,
                   delay, log, looping, before, held, leaked, ret, err, data,
                   native, result, attack, totals, file, evaluator>>

\* The method raised: nothing catches the exception, the interpreter prints
\* the traceback and exits with status 1.
MainRaise ==
    /\ step \notin {"idle", "dispatch", "exited"}
    /\ pc = "Raised"
    /\ step' = "exited"
    /\ status' = 1
    /\ runs' = Ended(pc)
    /\ UNCHANGED <<attacks, delivered, calls, pc, params, i, sent, failed,
                   delay, log, looping, before, held, leaked, ret, err, data,
                   native, result, attack, totals, file, denied, evaluator>>

MainNext ==
    \/ MainSyn
    \/ MainScan
    \/ MainHttp
    \/ MainIcmp
    \/ SuiteHttp
    \/ SuiteIcmp
    \/ SuiteScan
    \/ SuiteSyn
    \/ SuiteFinish
    \/ MainReturn
    \/ MainRaise
    \/ RawSocketPermissionError
    \/ RawSocketError
    \/ SetsockoptError
    \/ RawSocketOk
    \/ RawSendOk
    \/ RawSendFail
    \/ RawBuildError
    \/ RawFinish
    \/ HttpRequestOk
    \/ HttpSocketError
    \/ HttpRequestError
    \/ HttpFinish
    \/ SocketFinalizer

MainSpec == MainInit /\ [][MainNext]_vars

\* ============================== icmp_flood near the end of the 16-bit range
\* An icmp_flood run followed from the iteration that is Lookback short of
\* sequence number 65536 on.  The run is in its loop, its raw socket open;
\* every earlier echo request was built (its sequence number is below 65536)
\* and its send succeeded or failed.  The log lists the attempts made from
\* the pick-up on.

\* How many iterations before sequence number 65536 the run is picked up.
Lookback == 3

\* Counts up to, at, and past the number of 16-bit sequence numbers.
IcmpCounts == {USHRT_MAX, USHRT_MAX + 1, USHRT_MAX + 2}

IcmpInit ==
    /\ HelperIdle /\ native = "little"
    /\ EntryIdle
    /\ EvaluatorIdle
    /\ kind = "icmp_flood"
    /\ count \in IcmpCounts
    /\ rate \in {-1, 1000}
    /\ port = 0 /\ start_port = 0 /\ end_port = 0
    /\ calls = 1
    /\ pc = "Sending" /\ looping = TRUE
    /\ ret = "pending" /\ err = "none"
    /\ held = 1 /\ leaked = 0
    /\ delay = Delay(rate)
    /\ attacks = [x \in {} |-> 0] /\ before = attacks
    /\ i = USHRT_MAX + 1 - Lookback
    /\ failed \in {0, 1}
    /\ sent = i - failed
    /\ delivered = sent
    /\ log = << >>

IcmpNext ==
    \/ RawSendOk
    \/ RawSendFail
    \/ RawBuildError
    \/ RawFinish
    \/ SocketFinalizer

IcmpSpec == IcmpInit /\ [][IcmpNext]_vars

\* ------------------------------------------------------------ evaluator
\* collect_detection_metrics.py: main reads a ground-truth file written by the
\* generator and a Suricata eve.json, and saves a report.

\* Bound on the number of lines of eve.json.
MaxLines == 3

\* attack_data.get(f, default)
Get(r, f, default) == IF f \in DOMAIN r THEN r[f] ELSE default

\* What parse_ground_truth keeps of a stored record.
ParseGroundTruthRecord(r) ==
    [attack_type  |-> r.attack_type,
     packets_sent |-> Get(r, "packets_sent", Get(r, "requests_sent", 0)),
     duration     |-> Get(r, "duration", 0),
     target_rate  |-> Get(r, "target_rate", Get(r, "rate", 0)),
     actual_rate  |-> Get(r, "actual_rate", Get(r, "rate", 0))]


\* Mapping of Suricata rule SIDs to attack types.
SID_TO_ATTACK ==
    "1000001" :> "HTTP Flood" @@ "1000002" :> "Port Scan"
    @@ "1000003" :> "ICMP Flood" @@ "1000004" :> "SYN Flood"
    @@ "1000005" :> "Suspicious User-Agent" @@ "1000006" :> "Rapid Connections"

\* str(n) of a non-negative integer: its decimal digits.
Digit == <<"0", "1", "2", "3", "4", "5", "6", "7", "8", "9">>

RECURSIVE Str(_)
Str(n) == IF n < 10 THEN Digit[n + 1] ELSE Str(n \div 10) \o Digit[(n % 10) + 1]

\* Python's None, and a dict with no keys.
None == [none |-> TRUE]
EmptyDict == [x \in {} |-> 0]

\* The timestamp of an event: absent; a string that is not an ISO date; an
\* ISO date, given by its seconds on the clock.
Timestamps ==
    {[given |-> FALSE],
     [given |-> TRUE, iso |-> FALSE],
     [given |-> TRUE, iso |-> TRUE, seconds |-> 5]}

\* One alert event of eve.json, as json.loads returns it.
AlertEvent(signature_id, ts) ==
    [json |-> "object", event_type |-> "alert",
     alert |-> [signature_id |-> signature_id, signature |-> "rule",
                severity |-> 2],
     timestamp |-> ts]

\* The lines of eve.json: text that is not JSON; JSON that is not an object;
\* an event that is not an alert; an alert of a rule outside the table; alerts
\* of the SYN flood and HTTP flood rules with each kind of timestamp.
Lines ==
    {[json |-> "invalid"], [json |-> "array"],
     [json |-> "object", event_type |-> "flow"],
     AlertEvent(2100498, [given |-> TRUE, iso |-> TRUE, seconds |-> 5])}
    \cup {AlertEvent(1000004, ts) : ts \in Timestamps}
    \cup {AlertEvent(1000001, ts) : ts \in Timestamps}

RECURSIVE Logs(_)
Logs(n) ==
    IF n = 0 THEN {<< >>}
    ELSE Logs(n - 1) \cup {Append(l, x) : l \in Logs(n - 1), x \in Lines}

\* eve.json: missing, or a file of at most MaxLines lines.
EveFiles ==
    {[exists |-> FALSE]} \cup {[exists |-> TRUE, lines |-> l] : l \in Logs(MaxLines)}

\* Records as syn_flood and http_flood store them: two SYN packets sent; an
\* HTTP flood none of whose requests could be sent.
SynFloodRecord ==
    [port |-> 8080, requested_count |-> 2, packets_sent |-> 2,
     packets_failed |-> 0, duration |-> 1, target_rate |-> 10000,
     actual_rate |-> 2, attack_type |-> "SYN Flood"]

HttpFloodRecord ==
    [port |-> 8080, requested_count |-> 2, requests_sent |-> 0,
     requests_failed |-> 2, duration |-> 1, rate |-> 0,
     attack_type |-> "HTTP Flood"]

\* The ground-truth file: missing; text that is not JSON; a JSON object
\* without the keys attacks and start_time; the statistics of a suite run
\* without privilege (http_flood alone) and of one with both floods.
GroundTruthFiles ==
    {[exists |-> FALSE],
     [exists |-> TRUE, json |-> "invalid"],
     [exists |-> TRUE, json |-> "object", data |-> [target |-> "10.0.0.1"]],
     [exists |-> TRUE, json |-> "object",
      data |-> [start_time |-> 3, attacks |-> ("http_flood" :> HttpFloodRecord)]],
     [exists |-> TRUE, json |-> "object",
      data |-> [start_time |-> 3,
                attacks |-> ("http_flood" :> HttpFloodRecord
                             @@ "syn_flood" :> SynFloodRecord)]]}

\* The state of controlled_attack_generator.py, which the evaluator leaves
\* alone.
generator ==
    <<attacks, delivered, calls, pc, params, i, sent, failed, delay, log,
      looping, before, held, leaked, ret, err, data, native, result, entry>>

\* main is entered with its five arguments; nothing has been saved.
EvalInit ==
    /\ Constructed
    /\ HelperIdle /\ native = "little"
    /\ EntryIdle
    /\ files \in [ground_truth : GroundTruthFiles, eve : EveFiles,
                  report : {[saved |-> FALSE]}]
    /\ collector = [constructed |-> FALSE]
    /\ analysis = [at |-> "main"]

\* DetectionMetricsCollector(...) raises FileNotFoundError, a file being
\* missing: main prints the error and returns 1.
ConstructorFileNotFound ==
    /\ analysis.at = "main"
    /\ ~(files.ground_truth.exists /\ files.eve.exists)
    /\ analysis' = [at |-> "returned", ret |-> 1]
    /\ UNCHANGED <<files, collector, generator>>

\* DetectionMetricsCollector(...): both files exist.
Constructor ==
    /\ analysis.at = "main"
    /\ files.ground_truth.exists /\ files.eve.exists
    /\ collector' = [constructed |-> TRUE, ground_truth |-> None,
                     attack_start_time |-> None,
                     first_detections |-> EmptyDict,
                     alert_counts |-> EmptyDict]
    /\ analysis' = [at |-> "parse_ground_truth"]
    /\ UNCHANGED <<files, generator>>

\* json.load can read the ground truth and the keys read are there.
GroundTruthReadable ==
    /\ files.ground_truth.json = "object"
    /\ {"attacks", "start_time"} \subseteq DOMAIN files.ground_truth.data
    /\ \A name \in DOMAIN files.ground_truth.data.attacks :
           "attack_type" \in DOMAIN files.ground_truth.data.attacks[name]

\* parse_ground_truth raises (JSONDecodeError, KeyError): main's
\* `except Exception` prints the traceback and returns 1.
ParseGroundTruthError ==
    /\ analysis.at = "parse_ground_truth"
    /\ ~GroundTruthReadable
    /\ analysis' = [at |-> "returned", ret |-> 1]
    /\ UNCHANGED <<files, collector, generator>>

\* parse_ground_truth: one entry per attack of the file, and the start time.
parse_ground_truth ==
    /\ analysis.at = "parse_ground_truth"
    /\ GroundTruthReadable
    /\ LET d == files.ground_truth.data
       IN  collector' =
               [collector EXCEPT
                  !.ground_truth =
                      [name \in DOMAIN d.attacks |->
                           ParseGroundTruthRecord(d.attacks[name])],
                  !.attack_start_time = d.start_time]
    /\ analysis' = [at |-> "parse_suricata_detections", line |-> 1,
                    first_detections |-> EmptyDict,
                    alert_counts |-> EmptyDict]
    /\ UNCHANGED <<files, generator>>

\* parse_suricata_detections is at a line of eve.json.
Reading ==
    /\ analysis.at = "parse_suricata_detections"
    /\ analysis.line <= Len(files.eve.lines)

Line == files.eve.lines[analysis.line]

\* `continue`: on to the next line, the local dicts as they are.
Continue ==
    /\ analysis' = [analysis EXCEPT !.line = @ + 1]
    /\ UNCHANGED <<files, collector, generator>>

\* json.loads raises JSONDecodeError: the line is passed over.
LineNotJson ==
    /\ Reading
    /\ Line.json = "invalid"
    /\ Continue

\* json.loads returns a list, a number or a string: event.get raises
\* AttributeError, the outer except prints and re-raises, main returns 1.
LineNotObject ==
    /\ Reading
    /\ Line.json = "array"
    /\ analysis' = [at |-> "returned", ret |-> 1]
    /\ UNCHANGED <<files, collector, generator>>

\* The line is an event that main's loop goes on to look at.
IsAlert == Line.json = "object" /\ Line.event_type = "alert"

\* event.get('event_type') != 'alert'
LineNotAlert ==
    /\ Reading
    /\ Line.json = "object" /\ Line.event_type # "alert"
    /\ Continue

\* sid = str(alert.get('signature_id', ''))
Sid(event) ==
    IF "signature_id" \in DOMAIN event.alert
        THEN Str(event.alert.signature_id) ELSE ""

\* sid not in self.SID_TO_ATTACK
AlertOfOtherRule ==
    /\ Reading
    /\ IsAlert
    /\ Sid(Line) \notin DOMAIN SID_TO_ATTACK
    /\ Continue

\* alert_counts[attack_type] += 1 on a defaultdict(int)
Counted(alert_counts, attack_type) ==
    Put(alert_counts, attack_type, Get(alert_counts, attack_type, 0) + 1)

\* The alert is of a rule of the table, and it is the one in hand.
AlertOfRule ==
    /\ Reading
    /\ IsAlert
    /\ Sid(Line) \in DOMAIN SID_TO_ATTACK

\* event['timestamp'] is there and datetime.fromisoformat accepts it.
TimestampParses(event) == event.timestamp.given /\ event.timestamp.iso

\* An alert of an attack type already in first_detections: it is counted.
AlertCounted ==
    /\ AlertOfRule
    /\ SID_TO_ATTACK[Sid(Line)] \in DOMAIN analysis.first_detections
    /\ analysis' = [analysis EXCEPT
                      !.line = @ + 1,
                      !.alert_counts = Counted(@, SID_TO_ATTACK[Sid(Line)])]
    /\ UNCHANGED <<files, collector, generator>>

\* The first alert of its attack type whose timestamp parses: it is counted
\* and recorded as the first detection.
AlertFirstDetection ==
    /\ AlertOfRule
    /\ SID_TO_ATTACK[Sid(Line)] \notin DOMAIN analysis.first_detections
    /\ TimestampParses(Line)
    /\ LET attack_type == SID_TO_ATTACK[Sid(Line)]
       IN  analysis' =
               [analysis EXCEPT
                  !.line = @ + 1,
                  !.alert_counts = Counted(@, attack_type),
                  !.first_detections =
                      Put(@, attack_type,
                          [timestamp |-> Line.timestamp.seconds,
                           time_to_detect_seconds |->
                               Line.timestamp.seconds - collector.attack_start_time,
                           signature |-> Get(Line.alert, "signature", "Unknown"),
                           severity |-> Get(Line.alert, "severity", 0)])]
    /\ UNCHANGED <<files, collector, generator>>

\* The attack type is not in first_detections and event['timestamp'] raises
\* KeyError or fromisoformat raises ValueError: the alert has been counted
\* already, a warning is printed, and the loop continues.
AlertTimestampError ==
    /\ AlertOfRule
    /\ SID_TO_ATTACK[Sid(Line)] \notin DOMAIN analysis.first_detections
    /\ ~TimestampParses(Line)
    /\ analysis' = [analysis EXCEPT
                      !.line = @ + 1,
                      !.alert_counts = Counted(@, SID_TO_ATTACK[Sid(Line)])]
    /\ UNCHANGED <<files, collector, generator>>

\* The file is read through: the local dicts become the object's attributes.
EndOfLog ==
    /\ analysis.at = "parse_suricata_detections"
    /\ analysis.line > Len(files.eve.lines)
    /\ collector' = [collector EXCEPT
                       !.first_detections = analysis.first_detections,
                       !.alert_counts = analysis.alert_counts]
    /\ analysis' = [at |-> "calculate_metrics"]
    /\ UNCHANGED <<files, generator>>

\* calculate_metrics, for one entry of the ground truth. A rate is the pair
\* <<numerator, denominator>> of the quotient the code computes.
AttackMetrics(gt_data, first_detections, alert_counts) ==
    LET attack_type == gt_data.attack_type
        packets_sent == gt_data.packets_sent
        detected == attack_type \in DOMAIN first_detections
        alerts == Get(alert_counts, attack_type, 0)
    IN  [attack_type |-> attack_type,
         packets_sent |-> packets_sent,
         detected |-> detected,
         attack_duration |-> gt_data.duration,
         target_rate |-> gt_data.target_rate,
         actual_rate |-> gt_data.actual_rate,
         time_to_detect_seconds |->
             IF detected THEN first_detections[attack_type].time_to_detect_seconds
             ELSE None,
         detection_timestamp |->
             IF detected THEN first_detections[attack_type].timestamp ELSE None,
         total_alerts |-> IF detected THEN alerts ELSE 0,
         detection_rate_percent |->
             IF detected /\ packets_sent > 0 THEN <<alerts * 100, packets_sent>>
             ELSE <<0, 1>>,
         signature |->
             IF detected THEN first_detections[attack_type].signature ELSE None,
         severity |->
             IF detected THEN first_detections[attack_type].severity ELSE None]

\* metrics = collector.calculate_metrics()
calculate_metrics ==
    /\ analysis.at = "calculate_metrics"
    /\ analysis' =
           [at |-> "generate_report",
            metrics |->
                [name \in DOMAIN collector.ground_truth |->
                     AttackMetrics(collector.ground_truth[name],
                                   collector.first_detections,
                                   collector.alert_counts)]]
    /\ UNCHANGED <<files, collector, generator>>

\* sum(m[field] for m in metrics.values()) over the attacks named
RECURSIVE SumOver(_, _, _)
SumOver(metrics, names, field) ==
    IF names = {} THEN 0
    ELSE LET name == CHOOSE x \in names : TRUE
         IN  metrics[name][field] + SumOver(metrics, names \ {name}, field)

\* The summary generate_report builds (the two percentages are left out).
Summary(metrics) ==
    LET detected_attacks ==
            Cardinality({name \in DOMAIN metrics : metrics[name].detected})
    IN  [total_attacks |-> Cardinality(DOMAIN metrics),
         detected_attacks |-> detected_attacks,
         undetected_attacks |-> Cardinality(DOMAIN metrics) - detected_attacks,
         total_packets_sent |-> SumOver(metrics, DOMAIN metrics, "packets_sent"),
         total_alerts |-> SumOver(metrics, DOMAIN metrics, "total_alerts")]

\* generate_report and save_report: the report is written to the output
\* file, and main returns 0.
save_report ==
    /\ analysis.at = "generate_report"
    /\ files' = [files EXCEPT
                   !.report = [saved |-> TRUE, attacks |-> analysis.metrics,
                               summary |-> Summary(analysis.metrics)]]
    /\ analysis' = [at |-> "returned", ret |-> 0]
    /\ UNCHANGED <<collector, generator>>

EvalNext ==
    \/ ConstructorFileNotFound
    \/ Constructor
    \/ ParseGroundTruthError
    \/ parse_ground_truth
    \/ LineNotJson
    \/ LineNotObject
    \/ LineNotAlert
    \/ AlertOfOtherRule
    \/ AlertCounted
    \/ AlertFirstDetection
    \/ AlertTimestampError
    \/ EndOfLog
    \/ calculate_metrics
    \/ save_report

EvalSpec == EvalInit /\ [][EvalNext]_vars

\* ====================================================== properties
\* Send attempts of the run so far, and those whose send call returned.
Attempts == Len(log)
Succeeded == Cardinality({n \in 1 .. Len(log) : log[n].ok})
Max0(n) == IF n > 0 THEN n ELSE 0

\* C1: after any sequence of runs, each ended Completed or Aborted, the
\* number of packets/requests whose send call succeeded equals the sum of
\* packets_sent/requests_sent over the records in stats['attacks'].
C1_GroundTruthExact ==
    pc \in {"Completed", "Aborted"} => delivered = TotalPackets(attacks)

\* C2: a syn_flood with count = N and rate > 0 whose run stores a record:
\* the record has packets_sent + packets_failed = N, whatever the pattern
\* of send successes and failures; packets_sent counts the successes.
C2_SynSentPlusFailed ==
    (kind = "syn_flood" /\ rate > 0 /\ pc = "Completed") =>
        /\ "syn_flood" \in DOMAIN attacks
        /\ attacks["syn_flood"].requested_count = count
        /\ attacks["syn_flood"].packets_sent
             + attacks["syn_flood"].packets_failed = count
        /\ attacks["syn_flood"].packets_sent = Succeeded
        /\ attacks["syn_flood"].packets_failed = Attempts - Succeeded

\* C2 witness: a completed SYN flood at a positive rate with one packet
\* sent and one failed.
C2_Witness ==
    /\ kind = "syn_flood" /\ rate > 0 /\ pc = "Completed"
    /\ count = 2
    /\ attacks["syn_flood"].packets_sent = 1
    /\ attacks["syn_flood"].packets_failed = 1

\* C3 as stated: every port_scan that stores a record has packets_sent +
\* packets_failed = end_port - start_port + 1 = port_count, for all integer
\* start_port and end_port.
C3_ScanEqualsPortCount ==
    (kind = "port_scan" /\ pc = "Completed") =>
        /\ attacks["port_scan"].port_count = end_port - start_port + 1
        /\ attacks["port_scan"].packets_sent
             + attacks["port_scan"].packets_failed = end_port - start_port + 1

\* C3 amended: every port_scan that stores a record has packets_sent +
\* packets_failed = max(0, end_port - start_port + 1); the record's
\* port_count is end_port - start_port + 1, so the two agree exactly when
\* end_port >= start_port - 1.
C3_ScanEqualsRangeLength ==
    (kind = "port_scan" /\ pc = "Completed") =>
        LET r == attacks["port_scan"]
        IN  /\ r.start_port = start_port /\ r.end_port = end_port
            /\ r.port_count = end_port - start_port + 1
            /\ r.packets_sent + r.packets_failed
                 = Max0(end_port - start_port + 1)
            /\ (r.packets_sent + r.packets_failed = r.port_count)
                 <=> (end_port >= start_port - 1)

\* C3 witness: a completed scan of two ports, one probe sent, one failed.
C3_Witness ==
    /\ kind = "port_scan" /\ pc = "Completed"
    /\ end_port = start_port + 1
    /\ attacks["port_scan"].packets_sent = 1
    /\ attacks["port_scan"].packets_failed = 1

\* The count the run was asked for: the packet count, or the scan's
\* port count.
Requested ==
    IF kind = "port_scan" THEN PortCount(start_port, end_port) ELSE count

\* A raw run in its send loop or ended after entering it.
InRawLoop == kind \in RawKinds /\ looping

\* The counters of a running raw loop do not decrease from one step to the
\* next.
CountersMonotone ==
    (kind \in RawKinds /\ pc = "Sending") => (sent' >= sent /\ failed' >= failed)

\* The final record carries the counters the loop ended with.
RecordCarriesCounters ==
    (kind \in RawKinds /\ pc = "Completed") =>
        /\ attacks[kind].packets_sent = sent
        /\ attacks[kind].packets_failed = failed

\* C4 as stated: in every state of a syn_flood, icmp_flood or port_scan run,
\* and in its final record, packets_sent + packets_failed never exceeds the
\* requested count (the port count for the scan), and neither counter ever
\* decreases.
C4_NeverExceedsRequested ==
    /\ [](/\ RecordCarriesCounters
          /\ InRawLoop =>
                 sent + failed <= Requested)
    /\ [][CountersMonotone]_vars

\* C4 amended: packets_sent + packets_failed never exceeds the number of
\* iterations requested, which is the requested count, or max(0, port count)
\* for the scan (a scan with end_port < start_port - 1 has a negative port
\* count and zero attempts); neither counter ever decreases.
C4_NeverExceedsIterations ==
    /\ [](/\ RecordCarriesCounters
          /\ InRawLoop =>
                 /\ sent + failed <= Max0(Requested)
                 /\ sent + failed = Attempts
                 /\ (Requested >= 0 => sent + failed <= Requested))
    /\ [][CountersMonotone]_vars

\* C4 witness: a run in its loop with one packet sent and one failed, the
\* requested count reached.
C4_Witness ==
    /\ kind \in RawKinds /\ pc = "Sending"
    /\ sent = 1 /\ failed = 1 /\ Requested = 2

\* C5: when raw-socket creation fails with a privilege error the run is
\* Aborted with no send attempted: the call returned None, nothing was
\* counted, and stats['attacks'] is what it was before the call.
C5_PrivilegeAbort ==
    err = "PermissionError" =>
        /\ kind \in RawKinds
        /\ pc = "Aborted"
        /\ ret = "None"
        /\ ~looping
        /\ log = << >> /\ sent = 0 /\ failed = 0
        /\ attacks = before

\* C5 witness: a privilege failure on a generator that already holds a
\* record of the same attack from an earlier run.
C5_Witness ==
    /\ err = "PermissionError" /\ pc = "Aborted"
    /\ kind \in DOMAIN attacks

\* C6 as stated: every iteration makes exactly one send attempt, a failed
\* send is only counted, and a run that entered its send loop ends Completed
\* after exactly N attempts however many of them failed.
C6_CompletesAfterAllAttempts ==
    /\ looping =>
           /\ Attempts = i
           /\ sent + failed = Attempts
           /\ failed = Attempts - Succeeded
    /\ (looping /\ pc \in Terminal) =>
           /\ pc = "Completed"
           /\ Attempts = Iterations

\* C7 as stated: a syn_flood, port_scan or icmp_flood with rate <= 0 runs as
\* a positive-rate run does, with zero delay: it is not ended by the rate,
\* and once Completed it has attempted every packet and stored its record.
C7_NonPositiveRateUnbounded ==
    (kind \in RawKinds /\ rate <= 0) =>
        /\ pc # "Raised"
        /\ looping => delay[1] = 0
        /\ pc = "Completed" =>
               (Attempts = Iterations /\ kind \in DOMAIN attacks)

\* The socket set-up of the run failed (an outcome of the environment).
SetupFailed == pc = "Aborted" /\ ~looping

\* C8 as stated: with count = 0, syn_flood, icmp_flood and http_flood make no
\* iteration and no send attempt, and the run (its socket set-up granted)
\* ends Completed with a record reporting sent = 0 and failed = 0.
C8_ZeroCountCompletes ==
    (kind \in {"syn_flood", "icmp_flood", "http_flood"} /\ count = 0) =>
        /\ log = << >>
        /\ (pc \in Terminal /\ ~SetupFailed) =>
               /\ pc = "Completed"
               /\ kind \in DOMAIN attacks
               /\ SentOf(attacks[kind]) = 0
               /\ attacks[kind].requested_count = 0

\* C9: an http_flood never aborts; its record has requests_sent +
\* requests_failed = N for every pattern of outcomes, requests_sent being the
\* requests that went through: with every attempt failing, requests_sent = 0
\* and requests_failed = N.
C9_HttpAllCounted ==
    kind = "http_flood" =>
        /\ pc \in {"Sending", "Completed"}
        /\ pc = "Completed" =>
               LET r == attacks["http_flood"]
               IN  /\ r.requested_count = count
                   /\ Attempts = count
                   /\ r.requests_sent = Succeeded
                   /\ r.requests_failed = Attempts - Succeeded
                   /\ r.requests_sent + r.requests_failed = count
                   /\ (Succeeded = 0) =>
                          (r.requests_sent = 0 /\ r.requests_failed = count)

\* C9 witness: a completed HTTP flood of two requests, both failed.
C9_Witness ==
    /\ kind = "http_flood" /\ pc = "Completed"
    /\ count = 2 /\ Succeeded = 0
    /\ attacks["http_flood"].requests_sent = 0
    /\ attacks["http_flood"].requests_failed = 2

\* C10 as stated: whenever a run is in a terminal state, no socket opened by
\* the generator is still open.
C10_SocketsClosed ==
    pc \in Terminal => held + leaked = 0

\* C11 as stated: a run ends Aborted only on a socket-creation failure taken
\* before any packet is built or counted; a syn_flood, port_scan or
\* icmp_flood that has entered its send loop is cancelled by no error and
\* ends Completed with a record.
C11_AbortOnlyAtSocketCreation ==
    /\ pc = "Aborted" =>
           /\ err \in {"PermissionError", "OSError"}
           /\ i = 0 /\ sent = 0 /\ failed = 0
    /\ (InRawLoop /\ pc \in Terminal) => (ret = "record" /\ kind \in DOMAIN attacks)

\* The internet checksum (RFC 1071) of a buffer: the one's-complement of the
\* end-around-carry sum of its big-endian 16-bit words, an odd last byte
\* being the high byte of a word whose low byte is zero.
RECURSIVE OnesComplementSum(_, _)
OnesComplementSum(d, j) ==
    IF j > Len(d) THEN 0
    ELSE LET hi == d[j]
             lo == IF j + 1 <= Len(d) THEN d[j + 1] ELSE 0
             t  == hi * 256 + lo + OnesComplementSum(d, j + 2)
         IN  (t % 65536) + (t \div 65536)

InternetChecksum(d) == 65535 - OnesComplementSum(d, 1)

\* C12 as stated: for every byte buffer of even or odd length, _checksum
\* returns the internet checksum of the buffer, an odd last byte being padded
\* with a zero byte on its right.
C12_ChecksumIsInternetChecksum ==
    (data.fn = "_checksum" /\ result.returned) =>
        result.value = InternetChecksum(data.buf)

\* On buffers of even length _checksum is the internet checksum.
ChecksumEvenLengthAgrees ==
    (data.fn = "_checksum" /\ result.returned /\ Len(data.buf) % 2 = 0) =>
        result.value = InternetChecksum(data.buf)

\* Octets from..to (1-based, inclusive) of a buffer.
Slice(d, from, to) == [k \in 1 .. (to - from + 1) |-> d[from + k - 1]]

\* The header with its checksum field (octets at..at+1) set to zero.
Zeroed(h, at) == [k \in 1 .. Len(h) |-> IF k \in {at, at + 1} THEN 0 ELSE h[k]]

\* What the checksum of an emitted header is computed over: the header
\* itself, for TCP the pseudo-header followed by the header.
Covered(h) ==
    IF data.fn = "_build_tcp_header" THEN PseudoHeader(data, Len(h)) \o h ELSE h

\* Offset (1-based) of the checksum field: octets 10-11 of the IPv4 header,
\* 16-17 of the TCP header, counted from 0.
ChecksumAt == IF data.fn = "_build_tcp_header" THEN 17 ELSE 11

\* C13 as stated: every header emitted by _build_ip_header and
\* _build_tcp_header carries in its checksum field, in network byte order,
\* the _checksum value computed over the header with the field zero (for TCP
\* over pseudo-header + header), so that the internet checksum recomputed
\* over the emitted octets verifies (is zero).
C13_HeaderChecksumVerifies ==
    (data.fn \in {"_build_ip_header", "_build_tcp_header"} /\ result.returned) =>
        LET h == result.value
        IN  /\ Len(h) = 20
            /\ Slice(h, ChecksumAt, ChecksumAt + 1)
                 = PackH(_checksum(Covered(Zeroed(h, ChecksumAt))))
            /\ InternetChecksum(Covered(h)) = 0

\* On a big-endian host, where the native order is the network order, the
\* emitted headers do verify.
BigEndianHeaderVerifies ==
    (data.fn \in {"_build_ip_header", "_build_tcp_header"} /\ result.returned
        /\ native = "big") =>
        InternetChecksum(Covered(result.value)) = 0

\* C14 as stated: every record stored in stats['attacks'] by any of the four
\* attack kinds contains attack_type, one of packets_sent/requests_sent,
\* duration, one of target_rate/rate, and actual_rate.
C14_RecordHasAllFields ==
    \A k \in DOMAIN attacks :
        LET F == DOMAIN attacks[k]
        IN  /\ "attack_type" \in F
            /\ F \cap {"packets_sent", "requests_sent"} # {}
            /\ "duration" \in F
            /\ F \cap {"target_rate", "rate"} # {}
            /\ "actual_rate" \in F

\* C14 amended: every stored record contains attack_type, duration and
\* exactly one of packets_sent/requests_sent; the records of syn_flood,
\* port_scan and icmp_flood contain target_rate and actual_rate, the
\* http_flood record contains neither: it has rate, the measured rate, which
\* parse_ground_truth reads as both the target and the actual rate.
C14_RecordFieldsByKind ==
    \A k \in DOMAIN attacks :
        LET r == attacks[k]
            F == DOMAIN r
            g == ParseGroundTruthRecord(r)
        IN  /\ {"attack_type", "duration"} \subseteq F
            /\ Cardinality(F \cap {"packets_sent", "requests_sent"}) = 1
            /\ IF k = "http_flood"
                 THEN /\ "requests_sent" \in F /\ "rate" \in F
                      /\ F \cap {"target_rate", "actual_rate"} = {}
                      /\ g.target_rate = r.rate /\ g.actual_rate = r.rate
                      /\ g.packets_sent = r.requests_sent
                 ELSE /\ {"packets_sent", "target_rate", "actual_rate"} \subseteq F
                      /\ "rate" \notin F
                      /\ g.target_rate = r.target_rate
                      /\ g.actual_rate = r.actual_rate
                      /\ g.packets_sent = r.packets_sent
            /\ g.duration = r.duration

\* C14 witness: the ground truth holds the record of an HTTP flood and the
\* record of a raw attack, each with a request or packet sent.
C14_Witness ==
    /\ "http_flood" \in DOMAIN attacks
    /\ attacks["http_flood"].requests_sent > 0
    /\ \E k \in RawKinds :
           k \in DOMAIN attacks /\ attacks[k].packets_sent > 0

\* The sent count of the record stored under name, 0 when there is none:
\* requests_sent for the HTTP flood, packets_sent for the others.
StoredSent(d, name) ==
    IF name \notin DOMAIN d THEN 0
    ELSE IF name = "http_flood" THEN d[name].requests_sent
    ELSE d[name].packets_sent

\* C15: at the end of run_standard_suite, totals.total_packets_sent is the
\* sum over the records in stats['attacks'] of packets_sent (requests_sent
\* for the HTTP flood), whatever subset of the four attacks completed; the
\* file holds these totals with the records.
C15_TotalsSumRecords ==
    (attack = "all" /\ step = "exited") =>
        /\ DOMAIN attacks \subseteq
               {"http_flood", "icmp_flood", "port_scan", "syn_flood"}
        /\ totals.total_packets_sent
             = StoredSent(attacks, "http_flood") + StoredSent(attacks, "icmp_flood")
                 + StoredSent(attacks, "port_scan") + StoredSent(attacks, "syn_flood")
        /\ file.written /\ file.totals = totals /\ file.attacks = attacks

\* C15 witness: the suite has ended with two of the four attacks completed,
\* the HTTP flood with requests sent and the SYN flood with packets sent; the
\* ICMP flood and the port scan were aborted.
C15_Witness ==
    /\ attack = "all" /\ step = "exited"
    /\ DOMAIN attacks = {"http_flood", "syn_flood"}
    /\ attacks["http_flood"].requests_sent = SuiteCount
    /\ attacks["syn_flood"].packets_sent > 0
    /\ totals.total_packets_sent > SuiteCount

\* C16 as stated: for every attack selector, once the campaign has ended the
\* record of every run that ended Completed has been written to a file.
C16_CompletedRecordsPersisted ==
    step = "exited" =>
        \A k \in DOMAIN attacks :
            /\ file.written
            /\ k \in DOMAIN file.attacks
            /\ file.attacks[k] = attacks[k]

\* Only the standard suite writes the statistics file.
OnlySuitePersists ==
    step = "exited" =>
        /\ file.written <=> (attack = "all")
        /\ file.written => file.attacks = attacks

\* C17 as stated: the process exits with a non-zero status when a run failed
\* on a privilege error, and with zero otherwise.
C17_ExitStatusTellsPrivilegeFailure ==
    step = "exited" => ((status # 0) <=> denied)

\* Every process in which a run ended on a privilege error exits with
\* status 0: the method returns None and nothing looks at it.
PrivilegeFailureExitsZero ==
    (step = "exited" /\ denied) => status = 0

\* The ports an ended or running scan has probed so far, in order.
Probed == [n \in 1 .. Len(log) |-> log[n].dst]

\* C18: a port_scan over [start_port, end_port] makes one probe per port, in
\* ascending order and to no port outside the range: the n-th attempt goes
\* to start_port + n - 1, a completed scan has probed every port of the range
\* exactly once (end_port - start_port + 1 attempts: 1000 for 1..1000), and a
\* scan whose range ends are ports (0..65535) is not cut short.
C18_OneProbePerPortAscending ==
    (kind = "port_scan" /\ looping) =>
        /\ \A n \in 1 .. Len(log) :
               /\ Probed[n] = start_port + n - 1
               /\ Probed[n] \in start_port .. end_port
        /\ \A n, m \in 1 .. Len(log) : n < m => Probed[n] < Probed[m]
        /\ pc = "Completed" =>
               /\ \A p \in start_port .. end_port :
                      Cardinality({n \in 1 .. Len(log) : Probed[n] = p}) = 1
               /\ Len(log) = Max0(end_port - start_port + 1)
        /\ (Packable(start_port) /\ Packable(end_port)) => pc # "Aborted"

\* C18 witness: a completed scan of the two ports 65534 and 65535, the first
\* probe failed to send, the second sent.
C18_Witness ==
    /\ kind = "port_scan" /\ pc = "Completed"
    /\ start_port = 65534 /\ end_port = 65535
    /\ Probed = <<65534, 65535>>
    /\ ~log[1].ok /\ log[2].ok

\* The sequence numbers of the echo requests attempted, as far as logged,
\* rise by one from attempt to attempt and end at the last iteration made.
SequenceRising ==
    /\ \A n \in 2 .. Len(log) : log[n].dst > log[n - 1].dst
    /\ \A n \in 1 .. Len(log) : log[n].dst = i - Len(log) + n - 1

\* C19 as stated: for every count N >= 0, an icmp_flood run whose raw socket
\* is created attempts exactly N echo requests, each with a sequence number
\* strictly greater than the one before, and ends Completed with
\* packets_sent + packets_failed = N, also when N > 65536.
C19_IcmpCompletesForEveryCount ==
    (kind = "icmp_flood" /\ looping) =>
        /\ sent + failed = i
        /\ SequenceRising
        /\ pc \in Terminal =>
               /\ pc = "Completed"
               /\ i = count
               /\ "icmp_flood" \in DOMAIN attacks
               /\ attacks["icmp_flood"].packets_sent
                    + attacks["icmp_flood"].packets_failed = count

\* With at most 65536 echo requests asked for, the run does all of that.
IcmpUpTo65536Completes ==
    (kind = "icmp_flood" /\ looping /\ count <= USHRT_MAX + 1) =>
        /\ sent + failed = i
        /\ SequenceRising
        /\ pc \in Terminal =>
               /\ pc = "Completed"
               /\ i = count
               /\ attacks["icmp_flood"].packets_sent
                    + attacks["icmp_flood"].packets_failed = count

\* Number of pacing sleeps of the run so far.
Sleeps == Cardinality({n \in 1 .. Len(log) : log[n].slept})

\* C20: in syn_flood, port_scan and icmp_flood with rate R > 0 the delay is
\* 1/R all through the loop, whatever the outcomes of the sends, and every
\* send attempt, successful or failed, is followed by one sleep (N sleeps
\* in a completed run); http_flood never sleeps.
C20_FixedPacing ==
    /\ (kind \in RawKinds /\ looping /\ rate > 0) =>
           /\ delay = <<1, rate>>
           /\ \A n \in 1 .. Len(log) : log[n].slept
           /\ Sleeps = sent + failed
           /\ pc = "Completed" => Sleeps = Iterations
    /\ kind = "http_flood" => Sleeps = 0

\* C20 witness: a completed raw run at a positive rate, one send failed and
\* one succeeded, each followed by its sleep.
C20_Witness ==
    /\ kind \in RawKinds /\ rate > 0 /\ pc = "Completed"
    /\ sent = 1 /\ failed = 1
    /\ Sleeps = 2
    /\ delay = <<1, 1000>>

\* The order in which run_standard_suite calls the attack methods.
SuiteOrder == <<"http_flood", "icmp_flood", "port_scan", "syn_flood">>

\* The methods whose call was seen to end with a stored record.
EndedCompleted ==
    {runs[n].method : n \in {m \in 1 .. Len(runs) : runs[m].ended = "Completed"}}

\* C22: in run_standard_suite the calls made are, in order, http_flood,
\* icmp_flood, port_scan, syn_flood; each call but the last one made has ended
\* Completed or Aborted before the next was made; a call that ended Aborted
\* leaves the next call enabled; the suite ends only after all four calls, and
\* the attacks map it has then written holds exactly the attacks whose call
\* ended Completed.
C22_SuiteRunsAllFourInOrder ==
    attack = "all" =>
        /\ Len(runs) <= Len(SuiteOrder)
        /\ \A n \in 1 .. Len(runs) : runs[n].method = SuiteOrder[n]
        /\ \A n \in 1 .. Len(runs) - 1 :
               runs[n].ended \in {"Completed", "Aborted"}
        /\ (step = "http_flood" /\ pc \in {"Completed", "Aborted"})
               => ENABLED SuiteIcmp
        /\ (step = "icmp_flood" /\ pc \in {"Completed", "Aborted"})
               => ENABLED SuiteScan
        /\ (step = "port_scan" /\ pc \in {"Completed", "Aborted"})
               => ENABLED SuiteSyn
        /\ (step = "syn_flood" /\ pc \in {"Completed", "Aborted"})
               => ENABLED SuiteFinish
        /\ step = "exited" =>
               /\ Len(runs) = Len(SuiteOrder)
               /\ runs[Len(runs)].ended \in {"Completed", "Aborted"}
               /\ file.written
               /\ DOMAIN file.attacks = EndedCompleted

\* C22 witness: the suite has ended without privilege: the three raw attacks
\* were each started after the one before had ended, each ended Aborted on
\* PermissionError, and the file written holds http_flood alone.
C22_Witness ==
    /\ attack = "all" /\ step = "exited" /\ denied
    /\ Len(runs) = 4
    /\ runs[1].ended = "Completed"
    /\ \A n \in 2 .. 4 : runs[n].ended = "Aborted"
    /\ file.written /\ DOMAIN file.attacks = {"http_flood"}
    /\ delivered = SuiteCount

\* main has returned.
MainReturned == analysis.at = "returned"

\* The ground-truth file is there and parse_ground_truth cannot read it.
MalformedGroundTruth == files.ground_truth.exists /\ ~GroundTruthReadable

\* Some line of eve.json is not parseable JSON.
UnparseableLine ==
    /\ files.eve.exists
    /\ \E n \in 1 .. Len(files.eve.lines) : files.eve.lines[n].json = "invalid"

\* C21 as stated: if the ground truth is malformed or any line of the
\* detection log is not parseable JSON, main ends with a non-zero result and
\* no report is saved.
C21_UnparseableInputAborts ==
    (MainReturned /\ (MalformedGroundTruth \/ UnparseableLine)) =>
        /\ analysis.ret # 0
        /\ ~files.report.saved

\* The half that holds: a malformed ground truth ends main with 1 and no
\* report; and main returns 0 exactly when it has saved the report.
MalformedGroundTruthAborts ==
    MainReturned =>
        /\ MalformedGroundTruth => (analysis.ret = 1 /\ ~files.report.saved)
        /\ (analysis.ret = 0) <=> files.report.saved

\* What the code does with unparseable lines: when both files are there, the
\* ground truth is readable and every line that is JSON is an object, main
\* returns 0 and saves a report, whatever else the log holds.
UnparseableLinesPassedOver ==
    (/\ MainReturned
     /\ files.ground_truth.exists /\ files.eve.exists
     /\ GroundTruthReadable
     /\ \A n \in 1 .. Len(files.eve.lines) : files.eve.lines[n].json # "array")
        => (analysis.ret = 0 /\ files.report.saved)

\* The lines of eve.json that are alerts of a rule mapped to attack_type.
AlertsOf(attack_type) ==
    {n \in 1 .. Len(files.eve.lines) :
        LET l == files.eve.lines[n]
        IN  /\ l.json = "object" /\ l.event_type = "alert"
            /\ Sid(l) \in DOMAIN SID_TO_ATTACK
            /\ SID_TO_ATTACK[Sid(l)] = attack_type}

\* C23 as stated: in the saved metrics, for every ground-truth attack,
\* total_alerts is the number of alert events of the log whose signature ID
\* maps to the attack's attack_type, and detected is true exactly when that
\* number is greater than zero, whatever the alerts' timestamps.
C23_TotalAlertsCountsLogAlerts ==
    files.report.saved =>
        \A name \in DOMAIN files.report.attacks :
            LET m == files.report.attacks[name]
                number == Cardinality(AlertsOf(m.attack_type))
            IN  /\ m.total_alerts = number
                /\ m.detected <=> (number > 0)

\* What the code computes: alert_counts holds the number of alerts of each
\* type, but detected is true exactly when some alert of the type has a
\* timestamp that parses, and total_alerts is the number of alerts only then,
\* 0 otherwise.
TotalAlertsNeedATimestamp ==
    files.report.saved =>
        \A name \in DOMAIN files.report.attacks :
            LET m == files.report.attacks[name]
                alerts == AlertsOf(m.attack_type)
                stamped == \E n \in alerts : TimestampParses(files.eve.lines[n])
            IN  /\ Get(collector.alert_counts, m.attack_type, 0)
                       = Cardinality(alerts)
                /\ m.detected <=> stamped
                /\ m.total_alerts = IF stamped THEN Cardinality(alerts) ELSE 0

====
